---- MODULE Spec2Model ----
(***************************************************************************)
(* Model of the rule-based violation detection core of dayoungmon:         *)
(*   src/src/core/regulation_checker.py  (RegulationChecker, Violation)    *)
(*   src/src/data/pattern_db.py          (PatternDatabase, PatternRule)    *)
(*   src/src/data/pattern_manager.py     (PatternManager)                  *)
(*   src/src/core/types.py               (ViolationType, SeverityLevel)    *)
(*                                                                         *)
(* A text is a sequence of one-character strings.  A regular expression is *)
(* a record [ok, alts]: ok = FALSE is a pattern re.compile rejects; alts   *)
(* is the top-level alternation, each alternative a sequence of atoms, an  *)
(* atom being a literal character or WS, a run of whitespace.             *)
(***************************************************************************)
EXTENDS Integers, Sequences, FiniteSets, TLC

VARIABLES
    rows,                \* pattern_rules table: set of row records
    seq,                 \* sqlite_sequence value of the AUTOINCREMENT id
    backend,             \* "ok" | "locked" (reads work, writes raise) | "down" (connect raises)
    backup_file,         \* content of the backup JSON file, or NoFile
    constructed,         \* how RegulationChecker.__init__ ran: "no" | "hardcoded" | "reachable" | "unreachable"
    use_database,        \* RegulationChecker.use_database
    violation_patterns,  \* RegulationChecker.violation_patterns (ordered dict)
    text,                \* the text handed to check_violations / generate_report
    violations,          \* the list last returned by check_violations
    prev_violations,     \* the list returned by the scan before that one
    scans,               \* number of scans made of the current text and ruleset
    report,              \* the dict last returned by generate_report
    op,                  \* name of the last operation
    ret,                 \* what the last operation returned or raised
    pre,                 \* the store content when the backup just made began
    reading,             \* get_patterns_for_checking in progress: index of the category it reads next, 0 when none
    patterns,            \* its local dict patterns, as far as it is built
    committed,           \* the store contents that existed since it began
    resetting            \* reset to defaults in progress: the ids it has still to delete

vars == <<rows, seq, backend, backup_file, constructed, use_database,
          violation_patterns, text, violations, prev_violations, scans,
          report, op, ret, pre, reading, patterns, committed, resetting>>

storeVars == <<rows, seq, backend, backup_file, pre>>
checkerVars == <<constructed, use_database, violation_patterns>>
scanVars == <<text, violations, prev_violations, scans, report>>
readVars == <<reading, patterns, committed>>

(***************************************************************************)
(* Bounds of the model.                                                    *)
(***************************************************************************)
MaxTextLen == 3
MaxRules == 2
MaxViolations == 4
MaxScans == 2
MaxId == 2
MaxCustomRows == 1
MaxTargetId == 1
MaxConcurrentWrites == 2

(***************************************************************************)
(* types.py                                                                *)
(***************************************************************************)
ViolationType ==
    <<"MEDICAL_CLAIM", "EXAGGERATED_EFFECT", "SAFETY_MISREPRESENTATION",
      "SUPERLATIVE_EXPRESSION", "COMPARATIVE_AD_VIOLATION">>

ViolationTypes == {ViolationType[i] : i \in 1..Len(ViolationType)}

SeverityLevel == <<"HIGH", "MEDIUM", "LOW">>

SeverityLevels == {SeverityLevel[i] : i \in 1..Len(SeverityLevel)}

(***************************************************************************)
(* Sequence helpers.                                                       *)
(***************************************************************************)
Range(s) == {s[i] : i \in 1..Len(s)}

Max(a, b) == IF a >= b THEN a ELSE b

Min(a, b) == IF a <= b THEN a ELSE b

RECURSIVE Flatten(_)
Flatten(ss) == IF ss = <<>> THEN <<>> ELSE Head(ss) \o Flatten(Tail(ss))

\* Python's s[start:end] for 0 <= start and 0 <= end <= len(s)
PySlice(s, start, end) ==
    IF start >= end THEN <<>> ELSE SubSeq(s, start + 1, end)

(***************************************************************************)
(* The regex dialect used by the catalog: literals, whitespace runs and a  *)
(* top-level alternation, matched with re.IGNORECASE.                      *)
(***************************************************************************)
WS == "\\s*"

Whitespace == {" "}

Fold == [c \in {"A", "B", "N", "O"} |->
            CASE c = "A" -> "a" [] c = "B" -> "b" [] c = "N" -> "n" [] c = "O" -> "o"]

Lower(c) == IF c \in DOMAIN Fold THEN Fold[c] ELSE c

Re(alts) == [ok |-> TRUE, alts |-> alts]

BadRe == [ok |-> FALSE, alts |-> <<>>]

\* The ends of the matches of atoms[i..] at offset p, in the order the
\* backtracking matcher tries them (\s* is greedy: longest run first).
RECURSIVE AtomEnds(_, _, _, _)
AtomEnds(atoms, i, txt, p) ==
    IF i > Len(atoms) THEN <<p>>
    ELSE IF atoms[i] = WS
    THEN LET run == CHOOSE k \in 0..(Len(txt) - p) :
                        /\ \A j \in 1..k : txt[p + j] \in Whitespace
                        /\ (p + k < Len(txt) => txt[p + k + 1] \notin Whitespace)
         IN  Flatten([n \in 1..(run + 1) |-> AtomEnds(atoms, i + 1, txt, p + run + 1 - n)])
    ELSE IF p < Len(txt) /\ Lower(txt[p + 1]) = Lower(atoms[i])
    THEN AtomEnds(atoms, i + 1, txt, p + 1)
    ELSE <<>>

\* All match ends of the alternation at offset p, in preference order.
MatchEnds(re, txt, p) ==
    Flatten([a \in 1..Len(re.alts) |-> AtomEnds(re.alts[a], 1, txt, p)])

\* The match the engine reports at offset p: the first in preference order,
\* skipping empty ones when must_advance is set; -1 when there is none.
MatchAt(re, txt, p, must_advance) ==
    LET ends == SelectSeq(MatchEnds(re, txt, p), LAMBDA e : ~must_advance \/ e > p)
    IN  IF ends = <<>> THEN -1 ELSE Head(ends)

\* re.finditer(pattern, txt, re.IGNORECASE) from offset p on: the sequence of
\* <<start, end>> spans.  After an empty match the scanner must advance.
RECURSIVE FindIterFrom(_, _, _, _)
FindIterFrom(re, txt, p, must_advance) ==
    IF p > Len(txt) THEN <<>>
    ELSE LET e == MatchAt(re, txt, p, must_advance)
         IN  IF e = -1 THEN FindIterFrom(re, txt, p + 1, FALSE)
             ELSE <<(<<p, e>>)>> \o FindIterFrom(re, txt, e, e = p)

finditer(re, txt) == FindIterFrom(re, txt, 0, FALSE)

(***************************************************************************)
(* What every operation means to a get_patterns_for_checking that another  *)
(* thread or process is running: the store content it commits is one more  *)
(* content that existed during that call; the call itself is not touched.  *)
(***************************************************************************)
Observed ==
    /\ committed' = IF reading = 0 THEN committed ELSE committed \cup {rows'}
    /\ Cardinality(committed') <= MaxConcurrentWrites + 1
    /\ UNCHANGED <<reading, patterns, resetting>>

(***************************************************************************)
(* regulation_checker.py: Violation and RegulationChecker.check_violations *)
(***************************************************************************)
Violation(t, vt, sev, lb, sg, pos) ==
    [text |-> t, violation_type |-> vt, severity |-> sev, legal_basis |-> lb,
     suggestion |-> sg, position |-> pos]

\* One entry of the violation_patterns dict, which iterates in insertion order.
Entry(vt, pattern_list) == [violation_type |-> vt, pattern_list |-> pattern_list]

\* candidates positioned at match.end()
RuleCandidates_match_end(vt, pattern_info, txt) ==
    LET spans == finditer(pattern_info.pattern, txt)
    IN  [k \in 1..Len(spans) |->
            Violation(PySlice(txt, spans[k][1], spans[k][2]), vt,
                      pattern_info.severity, pattern_info.legal_basis,
                      pattern_info.suggestion, spans[k][2])]

\* lines 166-178: the candidates one rule produces, in match order
RuleCandidates(vt, pattern_info, txt) ==
    LET spans == finditer(pattern_info.pattern, txt)
    IN  [k \in 1..Len(spans) |->
            Violation(PySlice(txt, spans[k][1], spans[k][2]), vt,
                      pattern_info.severity, pattern_info.legal_basis,
                      pattern_info.suggestion, spans[k][1])]

\* lines 164-178: category iteration order, then rule order, then match order
Candidates(vp, txt) ==
    Flatten([i \in 1..Len(vp) |->
        Flatten([j \in 1..Len(vp[i].pattern_list) |->
            RuleCandidates(vp[i].violation_type, vp[i].pattern_list[j], txt)])])

Key_without_type(v) == <<v.text, v.position>>

\* line 184
Key(v) == <<v.text, v.position, v.violation_type>>

\* lines 181-187: keep the first candidate of every key
RECURSIVE Unique(_, _)
Unique(vs, seen) ==
    IF vs = <<>> THEN <<>>
    ELSE IF Key(Head(vs)) \in seen THEN Unique(Tail(vs), seen)
    ELSE <<Head(vs)>> \o Unique(Tail(vs), seen \cup {Key(Head(vs))})

InsertByPosition_unstable(sorted, v) ==
    LET k == Cardinality({i \in 1..Len(sorted) : sorted[i].position < v.position})
    IN  SubSeq(sorted, 1, k) \o <<v>> \o SubSeq(sorted, k + 1, Len(sorted))

\* list.sort is stable: v goes behind every element whose position is <= its own
InsertByPosition(sorted, v) ==
    LET k == Cardinality({i \in 1..Len(sorted) : sorted[i].position <= v.position})
    IN  SubSeq(sorted, 1, k) \o <<v>> \o SubSeq(sorted, k + 1, Len(sorted))

RECURSIVE SortFrom(_, _)
SortFrom(vs, sorted) ==
    IF vs = <<>> THEN sorted
    ELSE SortFrom(Tail(vs), InsertByPosition(sorted, Head(vs)))

\* line 190
SortByPosition(vs) == SortFrom(vs, <<>>)

\* line 167: re.finditer compiles the pattern and raises re.error on a bad one
ScanRaises(vp, txt) ==
    /\ txt # <<>>
    /\ \E i \in 1..Len(vp) : \E j \in 1..Len(vp[i].pattern_list) :
          ~vp[i].pattern_list[j].pattern.ok

SeenAtEntry_kept == {<<violations[i].text, violations[i].position,
                        violations[i].violation_type>> : i \in 1..Len(violations)}

\* line 182: seen = set(), a local of every call
SeenAtEntry == {}

check_violations_unguarded(vp, txt) ==
    SortByPosition(Unique(Candidates(vp, txt), SeenAtEntry))

\* lines 157-192, when no pattern raises
check_violations(vp, txt) ==
    IF txt = <<>> THEN <<>>
    ELSE SortByPosition(Unique(Candidates(vp, txt), SeenAtEntry))

(***************************************************************************)
(* RegulationChecker.generate_report                                       *)
(***************************************************************************)
ContextChars == 20

\* ViolationType(...).value and SeverityLevel(...).value, romanised
TypeValue(vt) ==
    CASE vt = "MEDICAL_CLAIM" -> "ui-yag-pum-jeog pyo-hyeon"
      [] vt = "EXAGGERATED_EFFECT" -> "hyo-neung gwa-jang"
      [] vt = "SAFETY_MISREPRESENTATION" -> "an-jeon-seong heo-wi"
      [] vt = "SUPERLATIVE_EXPRESSION" -> "choe-sang-geub pyo-hyeon"
      [] vt = "COMPARATIVE_AD_VIOLATION" -> "bi-gyo-gwang-go wi-ban"

SeverityValue(sev) ==
    CASE sev = "HIGH" -> "nop-eum" [] sev = "MEDIUM" -> "jung-gan" [] sev = "LOW" -> "naj-eum"

\* counting the different violations of a severity
SeverityCount_distinct(vs, sev) ==
    Cardinality({vs[i] : i \in {j \in 1..Len(vs) : vs[j].severity = sev}})

\* lines 215-216: severity_count after the loop
SeverityCount(vs, sev) == Cardinality({i \in 1..Len(vs) : vs[i].severity = sev})

\* lines 220-222: max() and min() feed a Python slice, whose negative
\* bound would count from the end; the bounds here are never negative
Context(v, original_text) ==
    LET start == Max(0, v.position - ContextChars)
        end == Min(Len(original_text), v.position + Len(v.text) + ContextChars)
    IN  PySlice(original_text, start, end)

\* lines 224-232
Detail(v, original_text) ==
    [text |-> v.text, type |-> TypeValue(v.violation_type),
     severity |-> SeverityValue(v.severity), legal_basis |-> v.legal_basis,
     suggestion |-> v.suggestion, context |-> Context(v, original_text),
     position |-> v.position]

RiskLevel_no_escalation(vs) ==
    IF SeverityCount(vs, "HIGH") > 0 THEN "HIGH"
    ELSE IF SeverityCount(vs, "MEDIUM") > 0 THEN "MEDIUM"
    ELSE "LOW"

\* lines 235-242
RiskLevel(vs) ==
    IF SeverityCount(vs, "HIGH") > 0 THEN "HIGH"
    ELSE IF SeverityCount(vs, "MEDIUM") > 2 THEN "HIGH"
    ELSE IF SeverityCount(vs, "MEDIUM") > 0 THEN "MEDIUM"
    ELSE "LOW"

\* line 212, 217: the set of types seen
TypesSeen(vs) == {vs[i].violation_type : i \in 1..Len(vs)}

\* The orders in which a set of that content can be iterated (line 253): the
\* hash of an Enum member is the hash of its name, which is salted per process.
IterationOrders(S) ==
    {o \in [1..Cardinality(S) -> S] : \A i, j \in DOMAIN o : i # j => o[i] # o[j]}

\* lines 194-256; type_order is the order the set violation_types iterates in
generate_report(vs, original_text, type_order) ==
    IF vs = <<>>
    THEN [status |-> "PASS", total_violations |-> 0, violations |-> <<>>,
          summary |-> <<"no violations">>, risk_level |-> "LOW"]
    ELSE [status |-> "VIOLATION_FOUND",
          total_violations |-> Len(vs),
          violations |-> [i \in 1..Len(vs) |-> Detail(vs[i], original_text)],
          severity_summary |-> [high |-> SeverityCount(vs, "HIGH"),
                                medium |-> SeverityCount(vs, "MEDIUM"),
                                low |-> SeverityCount(vs, "LOW")],
          violation_types |-> [i \in 1..Len(type_order) |-> TypeValue(type_order[i])],
          risk_level |-> RiskLevel(vs),
          summary |-> <<"total", Len(vs), "risk", RiskLevel(vs)>>]

(***************************************************************************)
(* Values of the variables before anything has been returned.              *)
(***************************************************************************)
Ret(kind) == [kind |-> kind, id |-> 0, list |-> <<>>, fetched |-> <<>>]

RetId(id) == [kind |-> "id", id |-> id, list |-> <<>>, fetched |-> <<>>]

NoReport == [status |-> "NONE"]

NoFile == [exists |-> FALSE, data |-> <<>>]

NoPre == [valid |-> FALSE, bag |-> <<>>]

NoReset == [pc |-> "idle", todo |-> <<>>]

(***************************************************************************)
(* The built-in catalog: regulation_checker.py lines 42-110 and            *)
(* pattern_manager.py lines 39-106, Hangul romanised syllable by syllable. *)
(***************************************************************************)
PatternInfo(pattern, sev, lb, sg) ==
    [pattern |-> pattern, severity |-> sev, legal_basis |-> lb, suggestion |-> sg]

load_violation_patterns ==
    <<
      Entry("MEDICAL_CLAIM", <<
        PatternInfo(Re(<< <<"chi", "ryo">>, <<"wan", "chi">>, <<"ui", "hag", "jeog", WS, "hyo", "gwa">>, <<"byeong", "won">>, <<"ui", "sa">>, <<"cheo", "bang">>, <<"jin", "ryo">>, <<"im", "sang">>, <<"yag", "hyo">> >>),
                    "HIGH",
                    "hwa-jang-pum-beob je2jo(jeong-ui), yag-sa-beob je85jo",
                    "hwa-jang-pum-ui gi-neung-jeog hyo-gwa-ro pyo-hyeon-eul byeon-gyeong-ha-se-yo"),
        PatternInfo(Re(<< <<"hang", "gyun">>, <<"sal", "gyun">>, <<"se", "gyun", WS, "je", "geo">>, <<"ba", "i", "reo", "seu", WS, "cha", "dan">> >>),
                    "HIGH",
                    "hwa-jang-pum-beob je2jo, ui-ryo-gi-gi-beob",
                    "cheong-gyeol yu-ji-na se-jeong hyo-gwa-ro pyo-hyeon-eul byeon-gyeong-ha-se-yo") >>),
      Entry("EXAGGERATED_EFFECT", <<
        PatternInfo(Re(<< <<"1", "0", "0", "%", WS, "hyo", "gwa">>, <<"wan", "byeog", "han">>, <<"jeug", "si">>, <<"ba", "ro">>, <<"ha", "ru", WS, "man", "e">>, <<"gi", "jeog">>, <<"ma", "beob">> >>),
                    "HIGH",
                    "hwa-jang-pum-beob je10jo(pyo-si.gwang-go-ui geum-ji deung)",
                    "jeom-jin-jeog gae-seon-i-na do-um-eul jul su iss-da-neun pyo-hyeon-eu-ro byeon-gyeong-ha-se-yo"),
        PatternInfo(Re(<< <<"yeong", "gu", "jeog">>, <<"pyeong", "saeng">>, <<"jeol", "dae">>, <<"mu", "jo", "geon">>, <<"hwag", "sil", "hi">> >>),
                    "MEDIUM",
                    "pyo-si.gwang-go-ui gong-jeong-hwa-e gwan-han beob-ryul",
                    "gae-in-cha-ga iss-eul su iss-eum-eul myeong-si-ha-se-yo") >>),
      Entry("SAFETY_MISREPRESENTATION", <<
        PatternInfo(Re(<< <<"bu", "jag", "yong", WS, "eobs", "eum">>, <<"mu", "hae", "han">>, <<"1", "0", "0", "%", WS, "an", "jeon">>, <<"wan", "jeon", "hi", WS, "an", "jeon">> >>),
                    "HIGH",
                    "hwa-jang-pum-beob je10jo, so-bi-ja-gi-bon-beob",
                    "te-seu-teu-reul geo-chyeoss-da-geo-na an-jeon-seong-eul go-ryeo-haess-da-neun pyo-hyeon-eu-ro byeon-gyeong-ha-se-yo"),
        PatternInfo(Re(<< <<"al", "re", "reu", "gi", WS, "ban", "eung", WS, "eobs", "eum">>, <<"ja", "geug", WS, "eobs", "eum">> >>),
                    "MEDIUM",
                    "hwa-jang-pum-beob je10jo",
                    "gae-in-e tta-ra ban-eung-i da-reul su iss-eum-eul myeong-si-ha-se-yo") >>),
      Entry("SUPERLATIVE_EXPRESSION", <<
        PatternInfo(Re(<< <<"choe", "go">>, <<"choe", "sang">>, <<"choe", "jeog">>, <<"1", "wi">>, <<"neom", "beo", "won">>, <<"N", "O", ".", "1">>, <<"eu", "tteum">> >>),
                    "MEDIUM",
                    "pyo-si.gwang-go-ui gong-jeong-hwa-e gwan-han beob-ryul je3jo",
                    "gaeg-gwan-jeog geun-geo-ga iss-neun gyeong-u-e-man sa-yong-ha-geo-na sag-je-ha-se-yo"),
        PatternInfo(Re(<< <<"yu", "il", "han">>, <<"dog", "bo", "jeog">>, <<"dog", "chang", "jeog">>, <<"se", "gye", WS, "choe", "cho">> >>),
                    "HIGH",
                    "pyo-si.gwang-go-ui gong-jeong-hwa-e gwan-han beob-ryul",
                    "geom-jeung ga-neung-han sa-sil-i a-nin gyeong-u sag-je-ha-se-yo") >>),
      Entry("COMPARATIVE_AD_VIOLATION", <<
        PatternInfo(Re(<< <<"ta", "je", "pum", "bo", "da">>, <<"gyeong", "jaeng", "sa", "bo", "da">>, <<"da", "reun", WS, "beu", "raen", "deu", "bo", "da">>, <<"bi", "gyo", WS, "bul", "ga">> >>),
                    "MEDIUM",
                    "pyo-si.gwang-go-ui gong-jeong-hwa-e gwan-han beob-ryul je6jo",
                    "gaeg-gwan-jeog geun-geo ja-ryo-wa ham-kke je-si-ha-geo-na sag-je-ha-se-yo") >>)
    >>

get_hardcoded_patterns ==
    <<
      Entry("MEDICAL_CLAIM", <<
        PatternInfo(Re(<< <<"chi", "ryo">>, <<"wan", "chi">>, <<"ui", "hag", "jeog", WS, "hyo", "gwa">>, <<"byeong", "won">>, <<"ui", "sa">>, <<"cheo", "bang">>, <<"jin", "ryo">>, <<"im", "sang">>, <<"yag", "hyo">> >>),
                    "HIGH",
                    "hwa-jang-pum-beob je2jo(jeong-ui), yag-sa-beob je85jo",
                    "hwa-jang-pum-ui gi-neung-jeog hyo-gwa-ro pyo-hyeon-eul byeon-gyeong-ha-se-yo"),
        PatternInfo(Re(<< <<"hang", "gyun">>, <<"sal", "gyun">>, <<"se", "gyun", WS, "je", "geo">>, <<"ba", "i", "reo", "seu", WS, "cha", "dan">> >>),
                    "HIGH",
                    "hwa-jang-pum-beob je2jo, ui-ryo-gi-gi-beob",
                    "cheong-gyeol yu-ji-na se-jeong hyo-gwa-ro pyo-hyeon-eul byeon-gyeong-ha-se-yo") >>),
      Entry("EXAGGERATED_EFFECT", <<
        PatternInfo(Re(<< <<"1", "0", "0", "%", WS, "hyo", "gwa">>, <<"wan", "byeog", "han">>, <<"jeug", "si">>, <<"ba", "ro">>, <<"ha", "ru", WS, "man", "e">>, <<"gi", "jeog">>, <<"ma", "beob">> >>),
                    "HIGH",
                    "hwa-jang-pum-beob je10jo(pyo-si.gwang-go-ui geum-ji deung)",
                    "jeom-jin-jeog gae-seon-i-na do-um-eul jul su iss-da-neun pyo-hyeon-eu-ro byeon-gyeong-ha-se-yo"),
        PatternInfo(Re(<< <<"yeong", "gu", "jeog">>, <<"pyeong", "saeng">>, <<"jeol", "dae">>, <<"mu", "jo", "geon">>, <<"hwag", "sil", "hi">> >>),
                    "MEDIUM",
                    "pyo-si.gwang-go-ui gong-jeong-hwa-e gwan-han beob-ryul",
                    "gae-in-cha-ga iss-eul su iss-eum-eul myeong-si-ha-se-yo") >>),
      Entry("SAFETY_MISREPRESENTATION", <<
        PatternInfo(Re(<< <<"bu", "jag", "yong", WS, "eobs", "eum">>, <<"mu", "hae", "han">>, <<"1", "0", "0", "%", WS, "an", "jeon">>, <<"wan", "jeon", "hi", WS, "an", "jeon">> >>),
                    "HIGH",
                    "hwa-jang-pum-beob je10jo, so-bi-ja-gi-bon-beob",
                    "te-seu-teu-reul geo-chyeoss-da-geo-na an-jeon-seong-eul go-ryeo-haess-da-neun pyo-hyeon-eu-ro byeon-gyeong-ha-se-yo"),
        PatternInfo(Re(<< <<"al", "re", "reu", "gi", WS, "ban", "eung", WS, "eobs", "eum">>, <<"ja", "geug", WS, "eobs", "eum">> >>),
                    "MEDIUM",
                    "hwa-jang-pum-beob je10jo",
                    "gae-in-e tta-ra ban-eung-i da-reul su iss-eum-eul myeong-si-ha-se-yo") >>),
      Entry("SUPERLATIVE_EXPRESSION", <<
        PatternInfo(Re(<< <<"choe", "go">>, <<"choe", "sang">>, <<"choe", "jeog">>, <<"1", "wi">>, <<"neom", "beo", "won">>, <<"N", "O", ".", "1">>, <<"eu", "tteum">> >>),
                    "MEDIUM",
                    "pyo-si.gwang-go-ui gong-jeong-hwa-e gwan-han beob-ryul je3jo",
                    "gaeg-gwan-jeog geun-geo-ga iss-neun gyeong-u-e-man sa-yong-ha-geo-na sag-je-ha-se-yo"),
        PatternInfo(Re(<< <<"yu", "il", "han">>, <<"dog", "bo", "jeog">>, <<"dog", "chang", "jeog">>, <<"se", "gye", WS, "choe", "cho">> >>),
                    "HIGH",
                    "pyo-si.gwang-go-ui gong-jeong-hwa-e gwan-han beob-ryul",
                    "geom-jeung ga-neung-han sa-sil-i a-nin gyeong-u sag-je-ha-se-yo") >>),
      Entry("COMPARATIVE_AD_VIOLATION", <<
        PatternInfo(Re(<< <<"ta", "je", "pum", "bo", "da">>, <<"gyeong", "jaeng", "sa", "bo", "da">>, <<"da", "reun", WS, "beu", "raen", "deu", "bo", "da">>, <<"bi", "gyo", WS, "bul", "ga">> >>),
                    "MEDIUM",
                    "pyo-si.gwang-go-ui gong-jeong-hwa-e gwan-han beob-ryul je6jo",
                    "gaeg-gwan-jeog geun-geo ja-ryo-wa ham-kke je-si-ha-geo-na sag-je-ha-se-yo") >>)
    >>

(***************************************************************************)
(* pattern_db.py: PatternRule, PatternDatabase                             *)
(***************************************************************************)
\* PatternRule; id 0 stands for None
PatternRule(id, pattern, vt, sev, lb, sg, is_active, description, category) ==
    [id |-> id, pattern |-> pattern, violation_type |-> vt, severity |-> sev,
     legal_basis |-> lb, suggestion |-> sg, is_active |-> is_active,
     description |-> description, category |-> category]

CanRead == backend \in {"ok", "locked"}

CanWrite == backend = "ok"

InsertedRow_last_id(sq, rule) == [rule EXCEPT !.id = sq]

\* INSERT, lines 72-87: AUTOINCREMENT hands out the id after the largest
\* ever used; .name of the two enums is what is stored
InsertedRow(sq, rule) == [rule EXCEPT !.id = sq + 1]

\* Text collation of sqlite (BINARY): byte-wise comparison of the names.
Letters == <<"A", "B", "C", "D", "E", "F", "G", "H", "I", "J", "K", "L", "M",
             "N", "O", "P", "Q", "R", "S", "T", "U", "V", "W", "X", "Y", "Z", "_">>

Code(c) == CHOOSE i \in 1..Len(Letters) : Letters[i] = c

NameText(name) ==
    CASE name = "HIGH" ->
           <<"H", "I", "G", "H">>
      [] name = "MEDIUM" ->
           <<"M", "E", "D", "I", "U", "M">>
      [] name = "LOW" ->
           <<"L", "O", "W">>
      [] name = "MEDICAL_CLAIM" ->
           <<"M", "E", "D", "I", "C", "A", "L", "_", "C", "L", "A", "I", "M">>
      [] name = "EXAGGERATED_EFFECT" ->
           <<"E", "X", "A", "G", "G", "E", "R", "A", "T", "E", "D", "_", "E", "F", "F", "E", "C", "T">>
      [] name = "SAFETY_MISREPRESENTATION" ->
           <<"S", "A", "F", "E", "T", "Y", "_", "M", "I", "S", "R", "E", "P", "R", "E", "S", "E", "N", "T", "A", "T", "I", "O", "N">>
      [] name = "SUPERLATIVE_EXPRESSION" ->
           <<"S", "U", "P", "E", "R", "L", "A", "T", "I", "V", "E", "_", "E", "X", "P", "R", "E", "S", "S", "I", "O", "N">>
      [] name = "COMPARATIVE_AD_VIOLATION" ->
           <<"C", "O", "M", "P", "A", "R", "A", "T", "I", "V", "E", "_", "A", "D", "_", "V", "I", "O", "L", "A", "T", "I", "O", "N">>

RECURSIVE TextLess(_, _)
TextLess(s, t) ==
    IF t = <<>> THEN FALSE
    ELSE IF s = <<>> THEN TRUE
    ELSE IF Code(Head(s)) # Code(Head(t)) THEN Code(Head(s)) < Code(Head(t))
    ELSE TextLess(Tail(s), Tail(t))

NameLess(a, b) == TextLess(NameText(a), NameText(b))

\* ORDER BY severity DESC, id (lines 111, 199)
RowBefore(r1, r2) ==
    IF r1.severity # r2.severity THEN NameLess(r2.severity, r1.severity)
    ELSE r1.id < r2.id

\* ORDER BY violation_type, severity DESC, id (lines 117, 128)
RowBeforeAll(r1, r2) ==
    IF r1.violation_type # r2.violation_type
    THEN NameLess(r1.violation_type, r2.violation_type)
    ELSE RowBefore(r1, r2)

RECURSIVE OrderRows(_)
OrderRows(S) ==
    IF S = {} THEN <<>>
    ELSE LET first == CHOOSE r \in S : \A q \in S \ {r} : RowBefore(r, q)
         IN  <<first>> \o OrderRows(S \ {first})

RECURSIVE OrderAllRows(_)
OrderAllRows(S) ==
    IF S = {} THEN <<>>
    ELSE LET first == CHOOSE r \in S : \A q \in S \ {r} : RowBeforeAll(r, q)
         IN  <<first>> \o OrderAllRows(S \ {first})

\* lines 313-314: row.get(...); sqlite3.Row has no method get, so the
\* conversion of any row raises AttributeError
RowHasGet == FALSE

\* lines 301-315, for a row whose conversion does not raise
row_to_pattern_rule(row) ==
    PatternRule(row.id, row.pattern, row.violation_type, row.severity,
                row.legal_basis, row.suggestion, row.is_active,
                row.description, row.category)

\* [self._row_to_pattern_rule(row) for row in cursor.fetchall()]
Converted(fetched) ==
    IF fetched # <<>> /\ ~RowHasGet
    THEN [kind |-> "AttributeError", id |-> 0, list |-> <<>>, fetched |-> fetched]
    ELSE [kind |-> "list", id |-> 0,
          list |-> [k \in 1..Len(fetched) |-> row_to_pattern_rule(fetched[k])],
          fetched |-> fetched]

\* lines 102-120 on the table content rs; vt = "None" for no filter
get_active_patterns(rs, vt) ==
    IF ~CanRead THEN Ret("OperationalError")
    ELSE IF vt = "None"
    THEN Converted(OrderAllRows({r \in rs : r.is_active}))
    ELSE Converted(OrderRows({r \in rs : r.is_active /\ r.violation_type = vt}))

\* lines 122-131
get_all_patterns(rs) ==
    IF ~CanRead THEN Ret("OperationalError") ELSE Converted(OrderAllRows(rs))

\* The (pattern, violation_type, severity, legal_basis, suggestion,
\* is_active, description, category) record of a rule: lines 254-263
BackupRecord(r) ==
    [pattern |-> r.pattern, violation_type |-> r.violation_type,
     severity |-> r.severity, legal_basis |-> r.legal_basis,
     suggestion |-> r.suggestion, is_active |-> r.is_active,
     description |-> r.description, category |-> r.category]

\* lines 283-294: the rows the restore loop adds to a table at sequence sq
RECURSIVE RestoredRows(_, _)
RestoredRows(data, sq) ==
    IF data = <<>> THEN {}
    ELSE {InsertedRow(sq, [id |-> 0] @@ Head(data))} \cup RestoredRows(Tail(data), sq + 1)

(***************************************************************************)
(* pattern_manager.py: PatternManager                                      *)
(***************************************************************************)
DefaultCategory == "gi-bon"

CustomCategory == "sa-yong-ja-jeong-ui"

\* lines 18-29: the catalog as a sequence of PatternRule, in insertion order
HardcodedRules ==
    Flatten([i \in 1..Len(get_hardcoded_patterns) |->
        [j \in 1..Len(get_hardcoded_patterns[i].pattern_list) |->
            LET vt == get_hardcoded_patterns[i].violation_type
                info == get_hardcoded_patterns[i].pattern_list[j]
            IN  PatternRule(0, info.pattern, vt, info.severity, info.legal_basis,
                            info.suggestion, TRUE,
                            <<TypeValue(vt), "gwan-ryeon pae-teon">>, DefaultCategory)]])

\* lines 13-37: every add commits on its own
MigratedRows(sq) ==
    {InsertedRow(sq + k - 1, HardcodedRules[k]) : k \in 1..Len(HardcodedRules)}

\* lines 125-144 on the table content rs
get_patterns_for_checking(rs) ==
    LET per == [i \in 1..Len(ViolationType) |-> get_active_patterns(rs, ViolationType[i])]
        entries == [i \in 1..Len(ViolationType) |->
                       Entry(ViolationType[i],
                             [k \in 1..Len(per[i].list) |->
                                 PatternInfo(per[i].list[k].pattern, per[i].list[k].severity,
                                             per[i].list[k].legal_basis,
                                             per[i].list[k].suggestion)])]
    IN  IF ~CanRead THEN [kind |-> "OperationalError", dict |-> <<>>]
        ELSE IF \E i \in 1..Len(ViolationType) : per[i].kind # "list"
        THEN [kind |-> "AttributeError", dict |-> <<>>]
        ELSE [kind |-> "dict",
              dict |-> SelectSeq(entries, LAMBDA e : e.pattern_list # <<>>)]

(***************************************************************************)
(* The operations of a constructed checker on a text.                      *)
(***************************************************************************)
\* check_violations(t), lines 157-192.  Nothing is returned when a pattern
\* raises; the checker is left as it was.
CheckViolations(t) ==
    /\ constructed # "no"
    /\ (t = text => scans < MaxScans)
    /\ text' = t
    /\ op' = "check_violations"
    /\ IF ScanRaises(violation_patterns, t)
       THEN /\ ret' = Ret("re.error")
            /\ UNCHANGED <<violations, prev_violations, scans>>
       ELSE /\ ret' = Ret("list")
            /\ violations' = check_violations(violation_patterns, t)
            /\ prev_violations' = violations
            /\ scans' = IF t = text THEN scans + 1 ELSE 1
    /\ Observed
    /\ UNCHANGED <<storeVars, checkerVars, report>>

\* a report that empties the list it is given
GenerateReport_consuming ==
    /\ constructed # "no"
    /\ op \in {"check_violations", "input"}
    /\ ret.kind = "list"
    /\ \E type_order \in IterationOrders(TypesSeen(violations)) :
          report' = generate_report(violations, text, type_order)
    /\ violations' = <<>>
    /\ op' = "generate_report"
    /\ ret' = Ret("dict")
    /\ Observed
    /\ UNCHANGED <<storeVars, checkerVars, text, prev_violations, scans>>

\* generate_report(violations, text), lines 194-256, on the list and the
\* text of the last scan
GenerateReport ==
    /\ constructed # "no"
    /\ op \in {"check_violations", "input"}
    /\ ret.kind = "list"
    /\ \E type_order \in IterationOrders(TypesSeen(violations)) :
          report' = generate_report(violations, text, type_order)
    /\ op' = "generate_report"
    /\ ret' = Ret("dict")
    /\ Observed
    /\ UNCHANGED <<storeVars, checkerVars, text, violations, prev_violations, scans>>

(***************************************************************************)
(* SpecScan: check_violations and generate_report as functions of a        *)
(* ruleset and a text drawn from bounded sets.                             *)
(***************************************************************************)
Alphabet == {"a", "A", " "}

Texts == UNION {[1..n -> Alphabet] : n \in 0..MaxTextLen}

ScanTypes == {"MEDICAL_CLAIM", "EXAGGERATED_EFFECT"}

RulePool ==
    { PatternInfo(Re(<< <<"a">> >>), "HIGH", "L1", "S1"),
      PatternInfo(Re(<< <<"a">> >>), "MEDIUM", "L2", "S2"),
      PatternInfo(Re(<< <<"a", WS, "a">> >>), "LOW", "L3", "S3"),
      PatternInfo(Re(<< <<WS>> >>), "MEDIUM", "L4", "S4"),
      PatternInfo(BadRe, "HIGH", "L5", "S5") }

RuleLists == UNION {[1..n -> RulePool] : n \in 0..MaxRules}

\* The dicts that file a rule list under one category or split it over two.
RulesetsOf(rules) ==
    IF rules = <<>> THEN {<<>>}
    ELSE { IF c[1] = Len(rules)
           THEN <<Entry(c[2], rules)>>
           ELSE <<Entry(c[2], SubSeq(rules, 1, c[1])),
                  Entry(c[3], SubSeq(rules, c[1] + 1, Len(rules)))>> :
           c \in {d \in (1..Len(rules)) \X ScanTypes \X ScanTypes : d[2] # d[3]} }

Rulesets == UNION {RulesetsOf(rules) : rules \in RuleLists}

InitStore ==
    /\ rows = {}
    /\ seq = 0
    /\ backend = "ok"
    /\ backup_file = NoFile
    /\ pre = NoPre
    /\ reading = 0
    /\ patterns = <<>>
    /\ committed = {}
    /\ resetting = NoReset

InitScan ==
    /\ InitStore
    /\ constructed = "hardcoded"
    /\ use_database = FALSE
    /\ violation_patterns \in Rulesets
    /\ text \in Texts
    /\ violations = <<>>
    /\ prev_violations = <<>>
    /\ scans = 0
    /\ report = NoReport
    /\ op = "init"
    /\ ret = Ret("None")

NextScan == CheckViolations(text) \/ GenerateReport

SpecScan == InitScan /\ [][NextScan]_vars

(***************************************************************************)
(* SpecReport: generate_report as a function of a violation list drawn     *)
(* from a bounded set, positions unknown (-1) included.                    *)
(***************************************************************************)
ViolationPool ==
    { Violation(<<"a">>, "MEDICAL_CLAIM", "HIGH", "L1", "S1", 0),
      Violation(<<"A">>, "MEDICAL_CLAIM", "MEDIUM", "L2", "S2", 1),
      Violation(<<"a", " ", "a">>, "EXAGGERATED_EFFECT", "MEDIUM", "L3", "S3", 0),
      Violation(<<"a">>, "EXAGGERATED_EFFECT", "LOW", "L4", "S4", -1) }

ViolationLists == UNION {[1..n -> ViolationPool] : n \in 0..MaxViolations}

ReportTexts == {<<>>, <<"a", "A", " ", "a">>}

InitReport ==
    /\ InitStore
    /\ constructed = "hardcoded"
    /\ use_database = FALSE
    /\ violation_patterns = <<>>
    /\ text \in ReportTexts
    /\ violations \in ViolationLists
    /\ prev_violations = <<>>
    /\ scans = 0
    /\ report = NoReport
    /\ op = "input"
    /\ ret = Ret("list")

NextReport == GenerateReport

SpecReport == InitReport /\ [][NextReport]_vars

(***************************************************************************)
(* Spec: the store, the checker built on it, scans and reports.            *)
(***************************************************************************)
\* What callers hand to add_custom_pattern
AddInputs ==
    { PatternRule(0, Re(<< <<"a">> >>), "MEDICAL_CLAIM", "HIGH", "L1", "S1",
                  TRUE, <<>>, CustomCategory),
      PatternRule(0, Re(<< <<"a">> >>), "MEDICAL_CLAIM", "MEDIUM", "L2", "S2",
                  TRUE, <<>>, CustomCategory),
      PatternRule(0, BadRe, "EXAGGERATED_EFFECT", "LOW", "L3", "S3",
                  TRUE, <<>>, CustomCategory) }

\* What callers hand to update_pattern; id 0 is a rule without id
UpdateInputs ==
    {[[r EXCEPT !.id = i] EXCEPT !.is_active = b] :
        r \in AddInputs, i \in 0..MaxTargetId, b \in BOOLEAN}

ScenarioText ==
    <<"i", " ", "je", "pum", "eun", " ", "1", "0", "0", "%", " ", "an", "jeon", "ha", "myeo", " ", "bu", "jag", "yong", "i", " ", "eobs", "seub", "ni", "da">>

\* The text scanned while the store and the checker change: the first
\* trigger of the scenario text
SpecTexts == {PySlice(ScenarioText, 6, 13)}

CustomRows == {r \in rows : r.category = CustomCategory}

\* The multiset of the rules of a table, ids left out
Multiset(rs) ==
    [t \in {BackupRecord(r) : r \in rs} |->
        Cardinality({r \in rs : BackupRecord(r) = t})]

\* Another process takes or releases the write lock, or the database file
\* becomes unreachable or reachable.
BackendChange(b) ==
    /\ b # backend
    /\ backend' = b
    /\ pre' = NoPre
    /\ Observed
    /\ UNCHANGED <<rows, seq, backup_file, checkerVars, scanVars, op, ret>>

\* PatternManager.migrate_hardcoded_patterns, lines 13-37
MigrateHardcodedPatterns ==
    /\ CanWrite => seq <= MaxId
    /\ IF CanWrite
       THEN /\ rows' = rows \cup MigratedRows(seq)
            /\ seq' = seq + Len(HardcodedRules)
            /\ ret' = Ret("True")
       ELSE /\ ret' = Ret("False")
            /\ UNCHANGED <<rows, seq>>
    /\ pre' = NoPre
    /\ Observed
    /\ op' = "migrate_hardcoded_patterns"
    /\ UNCHANGED <<backend, backup_file, checkerVars, scanVars>>

ModeAfterFailure_kept == TRUE

\* regulation_checker.py line 37: self.use_database = False
ModeAfterFailure == FALSE

\* RegulationChecker.__init__(use_database), lines 20-40
Construct(use_db) ==
    LET first == get_patterns_for_checking(rows)
        seeding == use_db /\ CanRead /\ first.kind = "dict" /\ first.dict = <<>>
        seeded == IF seeding /\ CanWrite THEN rows \cup MigratedRows(seq) ELSE rows
        second == get_patterns_for_checking(seeded)
        loaded == IF seeding THEN second ELSE first
    IN  /\ (seeding /\ CanWrite) => seq <= MaxId
        /\ rows' = seeded
        /\ seq' = IF seeding /\ CanWrite THEN seq + Len(HardcodedRules) ELSE seq
        /\ IF ~use_db
           THEN /\ constructed' = "hardcoded"
                /\ use_database' = FALSE
                /\ violation_patterns' = load_violation_patterns
           ELSE IF ~CanRead
           THEN /\ constructed' = "unreachable"
                /\ use_database' = ModeAfterFailure
                /\ violation_patterns' = load_violation_patterns
           ELSE IF loaded.kind # "dict"
           THEN /\ constructed' = "reachable"
                /\ use_database' = ModeAfterFailure
                /\ violation_patterns' = load_violation_patterns
           ELSE /\ constructed' = "reachable"
                /\ use_database' = TRUE
                /\ violation_patterns' = loaded.dict
        /\ scans' = 0
        /\ pre' = NoPre
        /\ Observed
        /\ op' = "RegulationChecker"
        /\ ret' = Ret("None")
        /\ UNCHANGED <<backend, backup_file, text, violations, prev_violations, report>>

\* a reload that leaves database mode when the store fails
ReloadPatterns_fallback ==
    LET loaded == get_patterns_for_checking(rows)
        failed == use_database /\ loaded.kind # "dict"
    IN  /\ constructed # "no"
        /\ violation_patterns' =
              IF ~use_database \/ failed THEN load_violation_patterns
              ELSE loaded.dict
        /\ use_database' = (use_database /\ ~failed)
        /\ scans' = 0
        /\ pre' = NoPre
        /\ Observed
        /\ op' = "reload_patterns"
        /\ ret' = Ret("None")
        /\ UNCHANGED <<rows, seq, backend, backup_file, constructed,
                       text, violations, prev_violations, report>>

\* RegulationChecker.reload_patterns, lines 112-122
ReloadPatterns ==
    LET loaded == get_patterns_for_checking(rows)
    IN  /\ constructed # "no"
        /\ violation_patterns' =
              IF ~use_database THEN load_violation_patterns
              ELSE IF loaded.kind = "dict" THEN loaded.dict
              ELSE violation_patterns
        /\ scans' = 0
        /\ pre' = NoPre
        /\ Observed
        /\ op' = "reload_patterns"
        /\ ret' = Ret("None")
        /\ UNCHANGED <<rows, seq, backend, backup_file, constructed, use_database,
                       text, violations, prev_violations, report>>

AddBounded == seq < MaxId /\ Cardinality(CustomRows) < MaxCustomRows

\* PatternManager.add_custom_pattern, lines 108-123, and through it
\* PatternDatabase.add_pattern, lines 69-87
ManagerAddCustomPattern(rule) ==
    /\ CanWrite => AddBounded
    /\ IF CanWrite
       THEN /\ rows' = rows \cup {InsertedRow(seq, rule)}
            /\ seq' = seq + 1
            /\ ret' = RetId(seq + 1)
       ELSE /\ ret' = Ret("OperationalError")
            /\ UNCHANGED <<rows, seq>>
    /\ pre' = NoPre
    /\ Observed
    /\ op' = "PatternManager.add_custom_pattern"
    /\ UNCHANGED <<backend, backup_file, checkerVars, scanVars>>

\* RegulationChecker.add_custom_pattern, lines 124-141
CheckerAddCustomPattern(rule) ==
    LET added == rows \cup {InsertedRow(seq, rule)}
        loaded == get_patterns_for_checking(added)
    IN  /\ constructed # "no"
        /\ (use_database /\ CanWrite) => AddBounded
        /\ IF use_database /\ CanWrite
           THEN /\ rows' = added
                /\ seq' = seq + 1
                /\ violation_patterns' =
                      IF loaded.kind = "dict" THEN loaded.dict ELSE violation_patterns
                /\ scans' = 0
                /\ ret' = [kind |-> "True", id |-> seq + 1, list |-> <<>>, fetched |-> <<>>]
           ELSE /\ ret' = Ret("False")
                /\ UNCHANGED <<rows, seq, violation_patterns, scans>>
        /\ pre' = NoPre
        /\ Observed
        /\ op' = "RegulationChecker.add_custom_pattern"
        /\ UNCHANGED <<backend, backup_file, constructed, use_database,
                       text, violations, prev_violations, report>>

RowCount_one(rs, id) == 1

\* cursor.rowcount of an UPDATE or DELETE ... WHERE id = ?
RowCount(rs, id) == Cardinality({r \in rs : r.id = id})

\* PatternDatabase.get_pattern, lines 89-100
GetPattern(id) ==
    LET found == {r \in rows : r.id = id}
    IN  /\ ret' = IF ~CanRead THEN Ret("OperationalError")
                  ELSE IF found = {} THEN Ret("None")
                  ELSE IF ~RowHasGet
                  THEN [kind |-> "AttributeError", id |-> 0, list |-> <<>>,
                        fetched |-> <<CHOOSE r \in found : TRUE>>]
                  ELSE [kind |-> "rule", id |-> id,
                        list |-> <<row_to_pattern_rule(CHOOSE r \in found : TRUE)>>,
                        fetched |-> <<CHOOSE r \in found : TRUE>>]
        /\ pre' = NoPre
        /\ Observed
        /\ op' = "get_pattern"
        /\ UNCHANGED <<rows, seq, backend, backup_file, checkerVars, scanVars>>

\* PatternDatabase.update_pattern, lines 133-158
UpdatePattern(rule) ==
    /\ IF rule.id = 0
       THEN ret' = Ret("False") /\ UNCHANGED rows
       ELSE IF ~CanWrite
       THEN ret' = Ret("OperationalError") /\ UNCHANGED rows
       ELSE /\ rows' = {IF r.id = rule.id THEN rule ELSE r : r \in rows}
            /\ ret' = Ret(IF RowCount(rows, rule.id) > 0 THEN "True" ELSE "False")
    /\ pre' = NoPre
    /\ Observed
    /\ op' = "update_pattern"
    /\ UNCHANGED <<seq, backend, backup_file, checkerVars, scanVars>>

\* PatternManager.update_pattern_status, lines 146-152: get_pattern, then
\* update_pattern with the fetched rule and the new flag.  get_pattern never
\* hands back a rule (the conversion of a fetched row raises), so the call
\* ends in its first store access and no other writer comes between the two.
UpdatePatternStatus(id, is_active) ==
    LET found == {r \in rows : r.id = id}
        pattern == [row_to_pattern_rule(CHOOSE r \in found : TRUE)
                        EXCEPT !.is_active = is_active]
    IN  /\ IF ~CanRead
           THEN ret' = Ret("OperationalError") /\ UNCHANGED rows
           ELSE IF found = {}
           THEN ret' = Ret("False") /\ UNCHANGED rows
           ELSE IF ~RowHasGet
           THEN /\ ret' = [kind |-> "AttributeError", id |-> 0, list |-> <<>>,
                           fetched |-> <<CHOOSE r \in found : TRUE>>]
                /\ UNCHANGED rows
           ELSE IF ~CanWrite
           THEN ret' = Ret("OperationalError") /\ UNCHANGED rows
           ELSE /\ rows' = {IF r.id = id THEN pattern ELSE r : r \in rows}
                /\ ret' = Ret("True")
        /\ pre' = NoPre
        /\ Observed
        /\ op' = "update_pattern_status"
        /\ UNCHANGED <<seq, backend, backup_file, checkerVars, scanVars>>

\* PatternDatabase.delete_pattern, lines 160-167
DeletePattern(id) ==
    /\ IF ~CanWrite
       THEN ret' = Ret("OperationalError") /\ UNCHANGED rows
       ELSE /\ rows' = {r \in rows : r.id # id}
            /\ ret' = Ret(IF RowCount(rows, id) > 0 THEN "True" ELSE "False")
    /\ pre' = NoPre
    /\ Observed
    /\ op' = "delete_pattern"
    /\ UNCHANGED <<seq, backend, backup_file, checkerVars, scanVars>>

\* PatternDatabase.deactivate_pattern, lines 169-178
DeactivatePattern(id) ==
    /\ IF ~CanWrite
       THEN ret' = Ret("OperationalError") /\ UNCHANGED rows
       ELSE /\ rows' = {IF r.id = id THEN [r EXCEPT !.is_active = FALSE] ELSE r : r \in rows}
            /\ ret' = Ret(IF RowCount(rows, id) > 0 THEN "True" ELSE "False")
    /\ pre' = NoPre
    /\ Observed
    /\ op' = "deactivate_pattern"
    /\ UNCHANGED <<seq, backend, backup_file, checkerVars, scanVars>>

\* PatternDatabase.get_all_patterns, lines 122-131
GetAllPatterns ==
    /\ ret' = get_all_patterns(rows)
    /\ pre' = NoPre
    /\ Observed
    /\ op' = "get_all_patterns"
    /\ UNCHANGED <<rows, seq, backend, backup_file, checkerVars, scanVars>>

\* PatternDatabase.get_active_patterns, lines 102-120
GetActivePatterns(vt) ==
    /\ ret' = get_active_patterns(rows, vt)
    /\ pre' = NoPre
    /\ Observed
    /\ op' = "get_active_patterns"
    /\ UNCHANGED <<rows, seq, backend, backup_file, checkerVars, scanVars>>

CountActive_all(rs, field, name) == Cardinality({r \in rs : r[field] = name})

\* SELECT COUNT(*) ... WHERE is_active = 1 GROUP BY field: the count of one group
CountActive(rs, field, name) ==
    Cardinality({r \in rs : r.is_active /\ r[field] = name})

\* GROUP BY gives a row only for a value that occurs: lines 215-237
Distribution(rs, field, names) ==
    [name \in {n \in names : CountActive(rs, field, n) > 0} |-> CountActive(rs, field, name)]

\* the dict of lines 239-245
get_statistics(rs) ==
    [total_patterns |-> Cardinality(rs),
     active_patterns |-> Cardinality({r \in rs : r.is_active}),
     inactive_patterns |-> Cardinality(rs) - Cardinality({r \in rs : r.is_active}),
     type_distribution |-> Distribution(rs, "violation_type", ViolationTypes),
     severity_distribution |-> Distribution(rs, "severity", SeverityLevels)]

\* PatternDatabase.get_statistics, lines 204-245
GetStatistics ==
    /\ ret' = IF ~CanRead THEN Ret("OperationalError")
              ELSE [kind |-> "dict", id |-> 0, list |-> <<get_statistics(rows)>>,
                    fetched |-> <<>>]
    /\ pre' = NoPre
    /\ Observed
    /\ op' = "get_statistics"
    /\ UNCHANGED <<rows, seq, backend, backup_file, checkerVars, scanVars>>

RECURSIVE TotalPatterns(_)
\* sum(len(patterns) for patterns in self.violation_patterns.values())
TotalPatterns(vp) ==
    IF vp = <<>> THEN 0 ELSE Len(Head(vp).pattern_list) + TotalPatterns(Tail(vp))

\* the dict of regulation_checker.py lines 150-155
hardcoded_statistics(vp) ==
    [total_patterns |-> TotalPatterns(vp),
     active_patterns |-> TotalPatterns(vp),
     type_distribution |->
        [name \in {vp[i].violation_type : i \in 1..Len(vp)} |->
            Len(vp[CHOOSE i \in 1..Len(vp) : vp[i].violation_type = name].pattern_list)],
     source |-> "hardcoded"]

\* RegulationChecker.get_pattern_statistics, lines 143-155
GetPatternStatistics ==
    /\ constructed # "no"
    /\ ret' = IF use_database
              THEN IF ~CanRead THEN Ret("OperationalError")
                   ELSE [kind |-> "dict", id |-> 0, list |-> <<get_statistics(rows)>>,
                         fetched |-> <<>>]
              ELSE [kind |-> "dict", id |-> 0,
                    list |-> <<hardcoded_statistics(violation_patterns)>>,
                    fetched |-> <<>>]
    /\ pre' = NoPre
    /\ Observed
    /\ op' = "get_pattern_statistics"
    /\ UNCHANGED <<rows, seq, backend, backup_file, checkerVars, scanVars>>

\* PatternDatabase.backup_to_json, lines 247-271
BackupToJson ==
    LET all == get_all_patterns(rows)
    IN  /\ IF all.kind = "list"
           THEN /\ backup_file' = [exists |-> TRUE,
                                   data |-> [k \in 1..Len(all.list) |-> BackupRecord(all.list[k])]]
                /\ ret' = Ret("True")
           ELSE /\ ret' = Ret("False")
                /\ UNCHANGED backup_file
        /\ pre' = [valid |-> TRUE, bag |-> Multiset(rows)]
        /\ Observed
        /\ op' = "backup_to_json"
        /\ UNCHANGED <<rows, seq, backend, checkerVars, scanVars>>

\* PatternDatabase.restore_from_json, lines 273-299
RestoreFromJson(clear_existing) ==
    LET cleared == IF clear_existing /\ CanWrite THEN {} ELSE rows
        data == backup_file.data
        failed == \/ clear_existing /\ ~CanWrite
                  \/ ~backup_file.exists
                  \/ data # <<>> /\ ~CanWrite
    IN  /\ ~failed => seq + Len(data) <= MaxId
        /\ ~failed => Cardinality(cleared) + Len(data) <= MaxCustomRows
        /\ IF failed
           THEN /\ rows' = cleared
                /\ ret' = Ret("False")
                /\ UNCHANGED seq
           ELSE /\ rows' = cleared \cup RestoredRows(data, seq)
                /\ seq' = seq + Len(data)
                /\ ret' = Ret("True")
        /\ pre' = IF op = "backup_to_json" THEN pre ELSE NoPre
        /\ Observed
        /\ op' = IF clear_existing THEN "restore_from_json(clear)" ELSE "restore_from_json"
        /\ UNCHANGED <<backend, backup_file, checkerVars, scanVars>>

\* PatternManager.get_patterns_for_checking, lines 125-127: the call begins
\* with an empty dict; its reads of the store follow one by one, and other
\* threads or processes may write between them
BeginGetPatterns ==
    /\ reading = 0
    /\ reading' = 1
    /\ patterns' = <<>>
    /\ committed' = {rows}
    /\ pre' = NoPre
    /\ op' = "get_patterns_for_checking"
    /\ ret' = Ret("running")
    /\ UNCHANGED <<rows, seq, backend, backup_file, checkerVars, scanVars, resetting>>

\* lines 129-142: one turn of the loop, one get_active_patterns(violation_type)
\* in a connection of its own; after the last turn the dict is returned
ReadCategory ==
    LET vt == ViolationType[reading]
        db_patterns == get_active_patterns(rows, vt)
        pattern_list == [k \in 1..Len(db_patterns.list) |->
                            PatternInfo(db_patterns.list[k].pattern,
                                        db_patterns.list[k].severity,
                                        db_patterns.list[k].legal_basis,
                                        db_patterns.list[k].suggestion)]
        grown == IF pattern_list # <<>> THEN Append(patterns, Entry(vt, pattern_list))
                 ELSE patterns
    IN  /\ reading > 0
        /\ IF db_patterns.kind # "list"
           THEN /\ reading' = 0
                /\ patterns' = patterns
                /\ ret' = db_patterns
           ELSE /\ reading' = IF reading = Len(ViolationType) THEN 0 ELSE reading + 1
                /\ patterns' = grown
                /\ ret' = IF reading = Len(ViolationType)
                          THEN [kind |-> "dict", id |-> 0, list |-> grown, fetched |-> <<>>]
                          ELSE Ret("running")
        /\ committed' = committed \cup {rows}
        /\ pre' = NoPre
        /\ op' = "get_patterns_for_checking"
        /\ UNCHANGED <<rows, seq, backend, backup_file, checkerVars, scanVars, resetting>>

\* streamlit_pattern_management.py lines 516-521: the button of the backup
\* page was pressed; st.confirm is a call into the Streamlit library (it
\* answers, or the library has no such function and the call raises), then
\* pattern_manager.db.get_all_patterns() lists what is to be deleted
ResetBegin(confirm) ==
    LET all == get_all_patterns(rows)
    IN  /\ resetting.pc = "idle"
        /\ IF confirm # "True"
           THEN /\ ret' = Ret(confirm)
                /\ UNCHANGED resetting
           ELSE IF all.kind # "list"
           THEN /\ ret' = Ret("failed")
                /\ UNCHANGED resetting
           ELSE /\ ret' = Ret("running")
                /\ resetting' = [pc |-> "clearing",
                                 todo |-> [k \in 1..Len(all.list) |-> all.list[k].id]]
        /\ committed' = IF reading = 0 THEN committed ELSE committed \cup {rows}
        /\ pre' = NoPre
        /\ op' = "reset_to_defaults"
        /\ UNCHANGED <<rows, seq, backend, backup_file, checkerVars, scanVars,
                       reading, patterns>>

\* lines 522-532: one delete_pattern of the loop, each a transaction of its
\* own, and after the last one migrate_hardcoded_patterns and the message
ResetContinue ==
    /\ resetting.pc = "clearing"
    /\ (resetting.todo = <<>> /\ CanWrite) => seq <= MaxId
    /\ IF resetting.todo # <<>>
       THEN /\ IF CanWrite
               THEN /\ rows' = {r \in rows : r.id # Head(resetting.todo)}
                    /\ resetting' = [resetting EXCEPT !.todo = Tail(resetting.todo)]
                    /\ ret' = Ret("running")
               ELSE /\ ret' = Ret("failed")
                    /\ resetting' = NoReset
                    /\ UNCHANGED rows
            /\ UNCHANGED seq
       ELSE /\ IF CanWrite
               THEN /\ rows' = rows \cup MigratedRows(seq)
                    /\ seq' = seq + Len(HardcodedRules)
                    /\ ret' = Ret("success")
               ELSE /\ ret' = Ret("failed")
                    /\ UNCHANGED <<rows, seq>>
            /\ resetting' = NoReset
    /\ committed' = IF reading = 0 THEN committed ELSE committed \cup {rows'}
    /\ Cardinality(committed') <= MaxConcurrentWrites + 1
    /\ pre' = NoPre
    /\ op' = "reset_to_defaults"
    /\ UNCHANGED <<backend, backup_file, checkerVars, scanVars, reading, patterns>>

\* Backup files found on disk: none, or one written by hand with one rule
BackupFiles ==
    { NoFile,
      [exists |-> TRUE,
       data |-> << BackupRecord(PatternRule(0, Re(<< <<"a">> >>), "MEDICAL_CLAIM", "LOW",
                                            "L4", "S4", FALSE, <<>>, CustomCategory)) >>] }

NotConstructed ==
    /\ constructed = "no"
    /\ use_database = FALSE
    /\ violation_patterns = <<>>
    /\ text = <<>>
    /\ violations = <<>>
    /\ prev_violations = <<>>
    /\ scans = 0
    /\ report = NoReport
    /\ op = "init"
    /\ ret = Ret("None")

\* SpecStore: the rule store used on its own, through PatternManager and
\* PatternDatabase, while the backend comes and goes.
InitStoreOnly ==
    /\ rows = {}
    /\ seq = 0
    /\ backend = "ok"
    /\ backup_file \in BackupFiles
    /\ pre = NoPre
    /\ NotConstructed
    /\ reading = 0
    /\ patterns = <<>>
    /\ committed = {}
    /\ resetting = NoReset

NextStore ==
    \/ \E b \in {"ok", "locked", "down"} : BackendChange(b)
    \/ MigrateHardcodedPatterns
    \/ \E rule \in AddInputs : ManagerAddCustomPattern(rule)
    \/ \E rule \in UpdateInputs : UpdatePattern(rule)
    \/ \E id \in 1..MaxTargetId : DeletePattern(id)
    \/ \E id \in 1..MaxTargetId : DeactivatePattern(id)
    \/ \E id \in 1..MaxTargetId : GetPattern(id)
    \/ GetStatistics
    \/ GetAllPatterns
    \/ \E vt \in ViolationTypes \cup {"None"} : GetActivePatterns(vt)
    \/ BackupToJson
    \/ \E clear_existing \in BOOLEAN : RestoreFromJson(clear_existing)

SpecStore == InitStoreOnly /\ [][NextStore]_vars

\* SpecCatalog: the scenario text and its slices scanned against the
\* built-in catalog by a checker constructed with use_database=False.
ScenarioSlices ==
    {PySlice(ScenarioText, a, b) : a \in 0..Len(ScenarioText), b \in 0..Len(ScenarioText)}

InitCatalog ==
    /\ InitStore
    /\ constructed = "hardcoded"
    /\ use_database = FALSE
    /\ violation_patterns = load_violation_patterns
    /\ text \in ScenarioSlices
    /\ violations = <<>>
    /\ prev_violations = <<>>
    /\ scans = 0
    /\ report = NoReport
    /\ op = "RegulationChecker"
    /\ ret = Ret("None")

NextCatalog == CheckViolations(text) \/ GenerateReport

SpecCatalog == InitCatalog /\ [][NextCatalog]_vars

\* SpecReload: get_patterns_for_checking read by read, while other threads
\* or processes write to the store.
InitReload ==
    /\ InitStore
    /\ NotConstructed

NextReload ==
    \/ \E rule \in AddInputs : ManagerAddCustomPattern(rule)
    \/ \E rule \in UpdateInputs : UpdatePattern(rule)
    \/ \E id \in 1..MaxTargetId : DeletePattern(id)
    \/ \E id \in 1..MaxTargetId : DeactivatePattern(id)
    \/ \E id \in 1..MaxTargetId : \E is_active \in BOOLEAN : UpdatePatternStatus(id, is_active)
    \/ BeginGetPatterns
    \/ ReadCategory

SpecReload == InitReload /\ [][NextReload]_vars

\* Spec: the checker on top of the store.
Init ==
    /\ InitStore
    /\ NotConstructed

Next ==
    \/ \E b \in {"ok", "locked", "down"} : BackendChange(b)
    \/ \E use_db \in BOOLEAN : Construct(use_db)
    \/ ReloadPatterns
    \/ \E rule \in AddInputs : CheckerAddCustomPattern(rule)
    \/ \E rule \in AddInputs : ManagerAddCustomPattern(rule)
    \/ \E id \in 1..MaxTargetId : DeactivatePattern(id)
    \/ \E t \in SpecTexts : CheckViolations(t)
    \/ GenerateReport
    \/ GetPatternStatistics

Spec == Init /\ [][Next]_vars

\* SpecReset: the reset to defaults of the management page while other
\* users of the store write to it.
NextReset ==
    \/ \E b \in {"ok", "locked", "down"} : BackendChange(b)
    \/ \E confirm \in {"True", "False", "AttributeError"} : ResetBegin(confirm)
    \/ ResetContinue
    \/ \E rule \in AddInputs : ManagerAddCustomPattern(rule)
    \/ \E id \in 1..MaxTargetId : DeletePattern(id)
    \/ \E id \in 1..MaxTargetId : DeactivatePattern(id)

SpecReset == InitReload /\ [][NextReset]_vars

\* SpecFrame: scans and reports of a checker while the store is written.
NextFrame ==
    \/ \E use_db \in BOOLEAN : Construct(use_db)
    \/ ReloadPatterns
    \/ \E rule \in AddInputs : CheckerAddCustomPattern(rule)
    \/ \E rule \in UpdateInputs : UpdatePattern(rule)
    \/ \E id \in 1..MaxTargetId : DeletePattern(id)
    \/ \E id \in 1..MaxTargetId : DeactivatePattern(id)
    \/ \E t \in SpecTexts : CheckViolations(t)
    \/ GenerateReport

SpecFrame == Init /\ [][NextFrame]_vars

(***************************************************************************)
(* Claims about the scan and the report.                                   *)
(***************************************************************************)
ScanReturned == op = "check_violations" /\ ret.kind = "list"

ReportMade == op = "generate_report"

SpansOf(i, j) ==
    Range(finditer(violation_patterns[i].pattern_list[j].pattern, text))

RuleIndexes ==
    UNION {{<<i, j>> : j \in 1..Len(violation_patterns[i].pattern_list)} :
              i \in 1..Len(violation_patterns)}

FirstIndex(cands, v) ==
    CHOOSE k \in 1..Len(cands) :
        cands[k] = v /\ \A m \in 1..(k - 1) : cands[m] # v

\* C2: the returned list is non-decreasing in position, and violations of
\* equal position stand in the order their candidates were produced
\* (category iteration order, then rule order, then match order).
C2_Ordering ==
    (ScanReturned /\ text # <<>>) =>
        LET cands == Candidates(violation_patterns, text)
        IN  \A a, b \in 1..Len(violations) :
                a < b =>
                    /\ violations[a].position <= violations[b].position
                    /\ violations[a].position = violations[b].position =>
                          FirstIndex(cands, violations[a]) < FirstIndex(cands, violations[b])

\* A scan whose candidates were out of position order and that returned two
\* violations of the same position.
C2_Witness ==
    /\ ScanReturned
    /\ text # <<>>
    /\ LET cands == Candidates(violation_patterns, text)
       IN  \E a, b \in 1..Len(cands) : a < b /\ cands[a].position > cands[b].position
    /\ \E a, b \in 1..Len(violations) :
          a < b /\ violations[a].position = violations[b].position

NumberOf(vs, sev) == Len(SelectSeq(vs, LAMBDA v : v.severity = sev))

\* C3: for a non-empty violation list the risk verdict is HIGH if a High
\* violation is present, otherwise HIGH if more than 2 are Medium, otherwise
\* MEDIUM if 1 or 2 are Medium, otherwise LOW.
C3_RiskVerdict ==
    (ReportMade /\ violations # <<>>) =>
        LET high == NumberOf(violations, "HIGH")
            medium == NumberOf(violations, "MEDIUM")
        IN  /\ high >= 1 => report.risk_level = "HIGH"
            /\ (high = 0 /\ medium > 2) => report.risk_level = "HIGH"
            /\ (high = 0 /\ medium \in {1, 2}) => report.risk_level = "MEDIUM"
            /\ (high = 0 /\ medium = 0) => report.risk_level = "LOW"

\* A report on exactly 3 Medium violations and no High one.
C3_Witness ==
    /\ ReportMade
    /\ Len(violations) = 3
    /\ \A k \in 1..3 : violations[k].severity = "MEDIUM"
    /\ report.risk_level = "HIGH"

\* C4: a scan of the empty string returns the empty list whatever the
\* ruleset holds (no rule is evaluated: a pattern that does not compile does
\* not raise, a pattern that matches the empty string gives no violation),
\* and the report on an empty list is PASS, 0 violations, LOW, no details.
C4_EmptyInput ==
    /\ (op = "check_violations" /\ text = <<>>) =>
          (ret.kind = "list" /\ violations = <<>>)
    /\ (ReportMade /\ violations = <<>>) =>
          /\ report.status = "PASS"
          /\ report.total_violations = 0
          /\ report.risk_level = "LOW"
          /\ report.violations = <<>>

\* The empty string was scanned under a ruleset holding a pattern that does
\* not compile and one that matches the empty string, and reported on.
C4_Witness ==
    /\ ReportMade
    /\ text = <<>>
    /\ scans >= 1
    /\ \E i \in 1..Len(violation_patterns) : \E j \in 1..Len(violation_patterns[i].pattern_list) :
          ~violation_patterns[i].pattern_list[j].pattern.ok
    /\ \E i \in 1..Len(violation_patterns) : \E j \in 1..Len(violation_patterns[i].pattern_list) :
          violation_patterns[i].pattern_list[j].pattern = Re(<< <<WS>> >>)
    /\ report.status = "PASS"

AddOps == {"PatternManager.add_custom_pattern", "RegulationChecker.add_custom_pattern"}

ListOps == {"get_all_patterns", "get_active_patterns"}

\* C6: backup_to_json followed at once by restore_from_json with
\* clear_existing=True, the backend working throughout, succeeds and leaves
\* a store whose multiset of rules, ids left out, equals the multiset the
\* store held before the backup.
C6_RoundTrip ==
    (op = "restore_from_json(clear)" /\ pre.valid /\ backend = "ok") =>
        (ret.kind = "True" /\ Multiset(rows) = pre.bag)

\* What a checker constructed while the backend was unreachable looks like
FallbackMode ==
    /\ ~use_database
    /\ violation_patterns # <<>>
    /\ violation_patterns = load_violation_patterns

\* A checker add that left the store and the snapshot alone and ended as kind
Rejected(kind) ==
    /\ ret'.kind = kind
    /\ UNCHANGED <<rows, seq, violation_patterns>>

\* C7 as stated: a checker constructed while the backend is unreachable is
\* in fallback mode with the built-in catalog as its non-empty ruleset, and
\* every later add made through it is rejected with UnsupportedOperationError
\* and changes neither the snapshot nor the store.
C7_Unsupported ==
    [][ /\ constructed' = "unreachable" => FallbackMode'
        /\ (constructed = "unreachable" /\ op' = "RegulationChecker.add_custom_pattern")
               => Rejected("UnsupportedOperationError") ]_vars

\* C7, amended: a checker constructed while the backend is unreachable is in
\* fallback mode with the built-in catalog as its non-empty ruleset, and
\* every later add made through it (the only mutation the checker offers) is
\* rejected by returning False, no exception raised, and changes neither the
\* snapshot nor the store.
C7_Fallback ==
    [][ /\ constructed' = "unreachable" => FallbackMode'
        /\ (constructed = "unreachable" /\ op' = "RegulationChecker.add_custom_pattern")
               => Rejected("False") ]_vars

C7_Witness ==
    /\ constructed = "unreachable"
    /\ backend = "ok"
    /\ op = "RegulationChecker.add_custom_pattern"
    /\ ret.kind = "False"
    /\ violation_patterns = load_violation_patterns

\* C8: scanning the scenario text against the default catalog returns at
\* least 2 violations, every one of category SAFETY_MISREPRESENTATION, and
\* the report made of them has risk_level HIGH.
C8_Scenario ==
    (text = ScenarioText /\ violation_patterns = load_violation_patterns) =>
        /\ ScanReturned =>
              /\ Len(violations) >= 2
              /\ \A k \in 1..Len(violations) :
                    violations[k].violation_type = "SAFETY_MISREPRESENTATION"
        /\ ReportMade => report.risk_level = "HIGH"

SeverityRank(sev) == CASE sev = "HIGH" -> 3 [] sev = "MEDIUM" -> 2 [] sev = "LOW" -> 1

\* rows fetched in the order (category, severity High > Medium > Low, id)
ListedInOrder(fetched) ==
    \A i, j \in 1..Len(fetched) :
        (i < j /\ fetched[i].violation_type = fetched[j].violation_type) =>
            /\ \A k \in i..j : fetched[k].violation_type = fetched[i].violation_type
            /\ \/ SeverityRank(fetched[i].severity) > SeverityRank(fetched[j].severity)
               \/ /\ fetched[i].severity = fetched[j].severity
                  /\ fetched[i].id < fetched[j].id

\* C9: the rows get_all_patterns and get_active_patterns list come ordered by
\* category, then by severity descending with High > Medium > Low, then by
\* id ascending.
C9_ListOrder ==
    (op \in ListOps /\ ret.kind # "OperationalError") => ListedInOrder(ret.fetched)

\* C10: an add of a rule whose pattern does not compile stores nothing: the
\* rule an add has just stored under the id it returned has a pattern that
\* compiles.
C10_ValidatedAdd ==
    (op \in AddOps /\ ret.kind \in {"id", "True"}) =>
        \A r \in rows : r.id = ret.id => r.pattern.ok

Ids(rs) == {r.id : r \in rs}

Present(id) == id \in Ids(rows)

\* C11: no two stored rules share an id; the ids of the rules a step stores
\* are larger than every id handed out before (the sequence never falls, so
\* an id is not reused after a delete or a clearing restore); an add returns
\* the id of the rule it stored, an id no rule held before; update and
\* deactivate leave the set of ids as it was.
C11_RuleIdentity ==
    [][ /\ \A r1, r2 \in rows' : r1.id = r2.id => r1 = r2
        /\ seq' >= seq
        /\ \A r \in rows' : r.id >= 1 /\ r.id <= seq'
        /\ \A r \in rows' : r.id \notin Ids(rows) => r.id > seq
        /\ \A rule \in AddInputs :
              ( /\ ret'.kind \in {"id", "True"}
                /\ backend' = backend
                /\ ManagerAddCustomPattern(rule) \/ CheckerAddCustomPattern(rule) ) =>
                  /\ ret'.id > seq
                  /\ ret'.id \in Ids(rows') \ Ids(rows)
        /\ (op' = "update_pattern" /\ backend' = backend /\ Ids(rows') # Ids(rows)) =>
              \A rule \in UpdateInputs : ~UpdatePattern(rule)
        /\ (op' = "deactivate_pattern" /\ backend' = backend /\ Ids(rows') # Ids(rows)) =>
              \A id \in 1..MaxTargetId : ~DeactivatePattern(id) ]_vars

\* an add after a delete: id 1 is gone and the add returned 2
C11_Witness ==
    /\ op = "PatternManager.add_custom_pattern"
    /\ ret.kind = "id"
    /\ ret.id = 2
    /\ ~Present(1)

\* C12: update, delete, deactivate and get called with an id that is not in
\* the store (update also with no id) leave every stored rule as it was and
\* never report success; with a working backend update, delete and
\* deactivate return False and get returns None.
C12_NotFound ==
    [][ /\ (op' = "update_pattern" /\ backend' = backend) =>
              \A rule \in UpdateInputs :
                  (~Present(rule.id) /\ UpdatePattern(rule)) =>
                      /\ rows' = rows
                      /\ ret'.kind # "True"
                      /\ backend = "ok" => ret'.kind = "False"
        /\ (op' \in {"delete_pattern", "deactivate_pattern"} /\ backend' = backend) =>
              \A id \in 1..MaxTargetId :
                  (~Present(id) /\ (DeletePattern(id) \/ DeactivatePattern(id))) =>
                      /\ rows' = rows
                      /\ ret'.kind # "True"
                      /\ backend = "ok" => ret'.kind = "False"
        /\ (op' = "get_pattern" /\ backend' = backend) =>
              \A id \in 1..MaxTargetId :
                  (~Present(id) /\ GetPattern(id)) =>
                      /\ rows' = rows
                      /\ ret'.kind # "rule"
                      /\ backend = "ok" => ret'.kind = "None" ]_vars

\* delete of an id that is gone, on a store that holds other rules
C12_Witness ==
    /\ op = "delete_pattern"
    /\ ret.kind = "False"
    /\ rows # {}
    /\ backend = "ok"

RowOf(id) == CHOOSE r \in rows : r.id = id

\* C13: after deactivate(id) on an existing rule, get(id) on the working
\* store returns that rule, inactive and with its other fields as stored.
C13_SoftDisable ==
    [][ \A id \in 1..MaxTargetId :
          ( /\ op = "deactivate_pattern" /\ ret.kind = "True"
            /\ backend = "ok"
            /\ Present(id) /\ ~RowOf(id).is_active
            /\ GetPattern(id) ) =>
              (ret'.kind = "rule" /\ ret'.list = <<RowOf(id)>>) ]_vars

RECURSIVE SumOver(_, _)
SumOver(f, S) ==
    IF S = {} THEN 0
    ELSE LET x == CHOOSE x \in S : TRUE IN f[x] + SumOver(f, S \ {x})

StatisticsReturned == op = "get_statistics" /\ ret.kind = "dict"

\* C14: get_statistics returns total = number of stored rules, active =
\* number of rules with is_active, inactive = total - active; the counts per
\* category and per severity count active rules only and each sum to active.
C14_Statistics ==
    StatisticsReturned =>
        LET st == ret.list[1]
            active == {r \in rows : r.is_active}
        IN  /\ st.total_patterns = Cardinality(rows)
            /\ st.active_patterns = Cardinality(active)
            /\ st.inactive_patterns = st.total_patterns - st.active_patterns
            /\ \A vt \in DOMAIN st.type_distribution :
                  st.type_distribution[vt] = Cardinality({r \in active : r.violation_type = vt})
            /\ \A sev \in DOMAIN st.severity_distribution :
                  st.severity_distribution[sev] = Cardinality({r \in active : r.severity = sev})
            /\ SumOver(st.type_distribution, DOMAIN st.type_distribution) = st.active_patterns
            /\ SumOver(st.severity_distribution, DOMAIN st.severity_distribution)
                  = st.active_patterns

\* statistics of a store that holds active and inactive rules
C14_Witness ==
    /\ StatisticsReturned
    /\ ret.list[1].active_patterns >= 2
    /\ ret.list[1].inactive_patterns >= 1
    /\ Cardinality(DOMAIN ret.list[1].severity_distribution) >= 2

\* get_patterns_for_checking has returned or raised
ReadFinished ==
    op = "get_patterns_for_checking" /\ reading = 0 /\ ret.kind # "running"

ActiveOf(rs, vt) == {r \in rs : r.is_active /\ r.violation_type = vt}

\* C15: computed against a store nobody writes to meanwhile, the mapping
\* get_patterns_for_checking returns has a key for a category exactly when
\* the store holds an active rule of it, no key maps to an empty sequence,
\* and the sequence under a key lists exactly the active rules of the
\* category in the order of get_active_patterns, with their pattern,
\* severity, legal_basis and suggestion.
C15_RulesetShape ==
    (ReadFinished /\ Cardinality(committed) = 1) =>
        /\ ret.kind = "dict"
        /\ \A i, j \in 1..Len(ret.list) :
              ret.list[i].violation_type = ret.list[j].violation_type => i = j
        /\ \A vt \in ViolationTypes :
              (\E i \in 1..Len(ret.list) : ret.list[i].violation_type = vt)
                  <=> ActiveOf(rows, vt) # {}
        /\ \A i \in 1..Len(ret.list) :
              LET listed == OrderRows(ActiveOf(rows, ret.list[i].violation_type))
              IN  /\ ret.list[i].pattern_list # <<>>
                  /\ ret.list[i].pattern_list =
                        [k \in 1..Len(listed) |->
                            PatternInfo(listed[k].pattern, listed[k].severity,
                                        listed[k].legal_basis, listed[k].suggestion)]

\* The active rules of one store content grouped by category
GroupedActive(rs) ==
    LET entries == [i \in 1..Len(ViolationType) |->
                       LET listed == OrderRows(ActiveOf(rs, ViolationType[i]))
                       IN  Entry(ViolationType[i],
                                 [k \in 1..Len(listed) |->
                                     PatternInfo(listed[k].pattern, listed[k].severity,
                                                 listed[k].legal_basis, listed[k].suggestion)])]
    IN  SelectSeq(entries, LAMBDA e : e.pattern_list # <<>>)

\* C17: whatever the other writers do meanwhile, the ruleset that
\* get_patterns_for_checking returns to reload is the grouping of the active
\* rules of one store content that existed during the call.
C17_ConsistentReload ==
    (ReadFinished /\ ret.kind = "dict") =>
        \E S \in committed : ret.list = GroupedActive(S)

\* C16: when add_custom_pattern of a checker in database mode returns True,
\* the rule is in the store under the id handed out and violation_patterns
\* is the grouping of the store's active rules, which holds the new rule
\* under its category; when it returns False, violation_patterns is as
\* before the call.
C16_AddVisible ==
    [][ \A rule \in AddInputs :
          (use_database /\ CheckerAddCustomPattern(rule)) =>
              IF ret'.kind = "True"
              THEN /\ InsertedRow(seq, rule) \in rows'
                   /\ violation_patterns' = GroupedActive(rows')
                   /\ \E i \in 1..Len(violation_patterns') :
                         /\ violation_patterns'[i].violation_type = rule.violation_type
                         /\ \E k \in 1..Len(violation_patterns'[i].pattern_list) :
                               violation_patterns'[i].pattern_list[k] =
                                   PatternInfo(rule.pattern, rule.severity,
                                               rule.legal_basis, rule.suggestion)
              ELSE violation_patterns' = violation_patterns ]_vars

ReportOfViolations == ReportMade /\ report.status = "VIOLATION_FOUND"

\* C18: in the report, the context of a violation at position p >= 0 with
\* matched text m is original_text from max(0, p - 20) to
\* min(len(original_text), p + len(m) + 20); the context of a violation at
\* position -1 is empty.
C18_ContextWindow ==
    ReportOfViolations =>
        \A k \in 1..Len(violations) :
            report.violations[k].context =
                IF violations[k].position >= 0
                THEN PySlice(text, Max(0, violations[k].position - 20),
                             Min(Len(text), violations[k].position
                                            + Len(violations[k].text) + 20))
                ELSE <<>>

\* The categories of a violation list in the order of their first occurrence
RECURSIVE FirstSeen(_, _)
FirstSeen(vs, seen) ==
    IF vs = <<>> THEN <<>>
    ELSE IF Head(vs).violation_type \in seen THEN FirstSeen(Tail(vs), seen)
    ELSE <<Head(vs).violation_type>>
             \o FirstSeen(Tail(vs), seen \cup {Head(vs).violation_type})

\* C19: the report's violation_types holds each category that occurs among
\* the violations exactly once and no other, in the order of first
\* occurrence in the violation list.
C19_TypesFirstSeen ==
    ReportOfViolations =>
        report.violation_types =
            [i \in 1..Len(FirstSeen(violations, {})) |->
                TypeValue(FirstSeen(violations, {})[i])]

\* The ruleset without the rules whose pattern does not compile
WithoutBadRules(vp) ==
    [i \in 1..Len(vp) |->
        Entry(vp[i].violation_type,
              SelectSeq(vp[i].pattern_list, LAMBDA info : info.pattern.ok))]

\* C20: a scan with a ruleset that holds a rule whose pattern does not
\* compile returns a list, the list a scan of the same text returns with
\* that rule removed.
C20_SkipBadRule ==
    (op = "check_violations"
        /\ \E i \in 1..Len(violation_patterns) :
              \E j \in 1..Len(violation_patterns[i].pattern_list) :
                  ~violation_patterns[i].pattern_list[j].pattern.ok) =>
        /\ ret.kind = "list"
        /\ violations = check_violations(WithoutBadRules(violation_patterns), text)

\* C21: constructing a checker on a store that holds at least one rule,
\* active or not, adds no rule to the store.
C21_SeedOnlyEmptyStore ==
    [][ \A use_db \in BOOLEAN :
          (op' = "RegulationChecker" /\ rows # {} /\ Construct(use_db)) =>
              rows' = rows ]_vars

\* C22: right after the construction of a checker, in either mode, the
\* ruleset it scans with is not empty: a store that could not be seeded is
\* not taken for an empty ruleset.
C22_LoadedAfterInit ==
    op = "RegulationChecker" => violation_patterns # <<>>

C24_KeepsHigherSeverity ==
    ScanReturned =>
        \A k \in 1..Len(violations) : \A ij \in RuleIndexes :
            ( /\ violation_patterns[ij[1]].violation_type = violations[k].violation_type
              /\ <<violations[k].position,
                   violations[k].position + Len(violations[k].text)>> \in SpansOf(ij[1], ij[2]) ) =>
                SeverityRank(violation_patterns[ij[1]].pattern_list[ij[2]].severity)
                    <= SeverityRank(violations[k].severity)

\* C25: check_violations and generate_report leave the store, the ruleset
\* snapshot and the mode as they were, generate_report also the violation
\* list it is given; and a violation list once returned is changed by no
\* add, update, deactivate, delete, reload or construction.
C25_ReadOnly ==
    [][ /\ (op' = "check_violations" /\ \E t \in SpecTexts : CheckViolations(t)) =>
              UNCHANGED <<rows, seq, backup_file, constructed, use_database,
                          violation_patterns>>
        /\ (op' = "generate_report" /\ GenerateReport) =>
              UNCHANGED <<rows, seq, backup_file, constructed, use_database,
                          violation_patterns, violations, text>>
        /\ violations' # violations =>
              \E t \in SpecTexts : CheckViolations(t) ]_vars

\* a list of violations was returned, and then a rule of the store was updated
C25_Witness ==
    /\ violations # <<>>
    /\ op = "update_pattern"
    /\ ret.kind = "True"

\* the rules of a table, ids left out
Unnumbered(rs) == {[r EXCEPT !.id = 0] : r \in rs}

C27_Anchored ==
    ScanReturned =>
        \A k \in 1..Len(violations) :
            LET v == violations[k]
            IN  /\ v.position >= 0
                /\ v.position <= Len(text)
                /\ v.position + Len(v.text) <= Len(text)
                /\ PySlice(text, v.position, v.position + Len(v.text)) = v.text
                /\ \E ij \in RuleIndexes :
                      LET rule == violation_patterns[ij[1]].pattern_list[ij[2]]
                      IN  /\ violation_patterns[ij[1]].violation_type = v.violation_type
                          /\ rule.severity = v.severity
                          /\ rule.legal_basis = v.legal_basis
                          /\ rule.suggestion = v.suggestion

\* a scan that returned an empty match at the end of the text and a match
\* of some length before it
C27_Witness ==
    /\ ScanReturned
    /\ \E k \in 1..Len(violations) :
          violations[k].position = Len(text) /\ violations[k].text = <<>>
    /\ \E k \in 1..Len(violations) :
          violations[k].position > 0 /\ violations[k].text # <<>>

\* C28: the report of a violation list has status PASS exactly when the
\* list is empty and VIOLATION_FOUND otherwise; for a non-empty list
\* total_violations is its length, the high, medium and low counts sum to
\* it, and the report lists the violations in the order of the input, each
\* with the text, the severity and the position of its input violation.
C28_Bookkeeping ==
    ReportMade =>
        /\ report.status = (IF violations = <<>> THEN "PASS" ELSE "VIOLATION_FOUND")
        /\ violations # <<>> =>
              /\ report.total_violations = Len(violations)
              /\ report.severity_summary.high + report.severity_summary.medium
                    + report.severity_summary.low = report.total_violations
              /\ Len(report.violations) = Len(violations)
              /\ \A k \in 1..Len(violations) :
                    /\ report.violations[k].text = violations[k].text
                    /\ report.violations[k].severity = SeverityValue(violations[k].severity)
                    /\ report.violations[k].position = violations[k].position

\* a report of a list that holds one violation twice and all three severities
C28_Witness ==
    /\ ReportMade
    /\ \E a, b \in 1..Len(violations) : a # b /\ violations[a] = violations[b]
    /\ {violations[k].severity : k \in 1..Len(violations)} = {"HIGH", "MEDIUM", "LOW"}

\* C29: a restore that reports failure leaves the store content as it was
\* before the call, also with clear_existing.
C29_RestoreAtomic ==
    [][ \A clear_existing \in BOOLEAN :
          ( /\ op' \in {"restore_from_json", "restore_from_json(clear)"}
            /\ ret'.kind = "False"
            /\ RestoreFromJson(clear_existing) ) =>
              rows' = rows ]_vars

\* C30: when update_pattern_status(id, flag) has ended on a working store
\* that holds rule id, the rule is active or not as the flag says and its
\* other fields are those last written to the store.
C30_StatusKeepsFields ==
    [][ \A id \in 1..MaxTargetId : \A flag \in BOOLEAN :
          ( /\ op' = "update_pattern_status"
            /\ Present(id)
            /\ backend = "ok"
            /\ UpdatePatternStatus(id, flag) ) =>
              rows' = {IF r.id = id THEN [r EXCEPT !.is_active = flag] ELSE r : r \in rows} ]_vars

====
